---- MODULE Spec2Model ----
(***************************************************************************)
(* Orchestration patterns of the deep-research agent:                      *)
(*   - fan-out / fan-in      (perform_searches, basic_parallel_searches)   *)
(*   - deadline per task     (search_with_timeout, parallel_with_timeouts) *)
(*   - first-to-finish race  (race_to_answer)                              *)
(*   - retry with backoff    (search_with_retry)                           *)
(*   - batches               (batch_parallel_searches)                     *)
(*   - progress lines        (search_with_progress)                        *)
(*   - the research pipeline (main, conduct_research)                      *)
(* The Executor (Runner.run) is the environment: it returns a value,       *)
(* raises an error, or raises a TimeoutError of its own, and it is a       *)
(* cooperative coroutine that a cancellation interrupts at its await.      *)
(* The event loop is cooperative: a coroutine runs from one await to the   *)
(* next without interleaving, so one action is one such stretch.           *)
(***************************************************************************)
EXTENDS Naturals, Integers, Sequences, FiniteSets, TLC

\* ---------------------------------------------------------------- bounds
\* largest number of planned searches handed to perform_searches
MaxTasks == 3

\* ------------------------------------------------------------ executor
\* what one Runner.run call can end with: a result, an exception, or a
\* TimeoutError raised by the call itself
ExecKinds == {"ok", "err", "toerr"}

\* result.final_output of the Executor for one query
FinalOutput(q) == <<"out", q>>

\* the exception an Executor call raises for one query
ExecError(q, k) == <<k, q>>

NoValue == <<"none">>

VARIABLES
    \* fan-out (perform_searches)
    fanN,        \* len(search_plan.searches)
    fanPc,       \* position of perform_searches
    fanTask,     \* state of each search(item) task
    fanCalls,    \* number of Runner.run invocations made by each task
    fanOrder,    \* indices of the tasks in the order they finished
    fanResults,  \* what `await asyncio.gather(*tasks)` evaluated to
    fanRaised    \* the exception gather re-raised, if any

fanVars == <<fanN, fanPc, fanTask, fanCalls, fanOrder, fanResults, fanRaised>>

VARIABLES
    \* the event loop's clock, in seconds
    now

VARIABLES
    \* deadlines (parallel_with_timeouts over search_with_timeout)
    dlPc,        \* position of parallel_with_timeouts
    dlLat,       \* seconds each Runner.run call needs
    dlExec,      \* state of each Runner.run call awaited by wait_for
    dlCalls,     \* number of Runner.run invocations made by each task
    dlDeadline,  \* when the timer of each wait_for is due
    dlTimer,     \* state of the timer of each wait_for
    dlCancel,    \* whether cancel() was called on each Runner.run call
    dlWrap,      \* state of each search_with_timeout task
    dlOrder,     \* indices of the search_with_timeout tasks as they finished
    dlResults,   \* what `await asyncio.gather(*tasks)` evaluated to
    dlRaised     \* the exception gather re-raised, if any

dlVars == <<dlPc, dlLat, dlExec, dlCalls, dlDeadline, dlTimer, dlCancel,
            dlWrap, dlOrder, dlResults, dlRaised>>

VARIABLES
    \* race (race_to_answer over search_task)
    racePc,      \* position of race_to_answer
    raceLat,     \* seconds each Runner.run call needs
    raceTask,    \* state of each search_task task
    raceCalls,   \* number of Runner.run invocations made by each task
    raceCancel,  \* whether cancel() was called on each task
    raceDone,    \* the set `done` returned by asyncio.wait
    racePending, \* the set `pending` returned by asyncio.wait
    raceWinner,  \* the task picked by list(done)[0]
    raceResult,  \* `winner`, the value of list(done)[0].result()
    raceLosers,  \* len(pending) as printed in the last line
    raceRaised   \* the exception that left race_to_answer, if any

raceVars == <<racePc, raceLat, raceTask, raceCalls, raceCancel, raceDone,
              racePending, raceWinner, raceResult, raceLosers, raceRaised>>

VARIABLES
    \* retry (parallel_with_error_recovery over search_with_retry)
    rtPc,        \* position of parallel_with_error_recovery
    rtM,         \* max_retries passed to search_with_retry
    rtTask,      \* state of each search_with_retry task
    rtAttempt,   \* the loop variable `attempt` of each task
    rtCalls,     \* number of Runner.run invocations made by each task
    rtKinds,     \* how each finished Runner.run call of a task ended
    rtSlept,     \* the delays each task passed to asyncio.sleep
    rtCancelled, \* whether a cancellation was thrown into each task
    rtResults    \* what `await asyncio.gather(...)` evaluated to

rtVars == <<rtPc, rtM, rtTask, rtAttempt, rtCalls, rtKinds, rtSlept,
            rtCancelled, rtResults>>

VARIABLES
    \* batches (batch_parallel_searches)
    btPc,        \* position of batch_parallel_searches
    btN,         \* len(queries)
    btB,         \* batch_size
    btI,         \* the loop variable `i`, the offset of the current batch
    btTask,      \* state of the Runner.run call of each query
    btCalls,     \* number of Runner.run invocations made for each query
    btGroup,     \* the number of the batch each query was put in
    btOrder,     \* indices of the calls of the current batch as they ended
    btSizes,     \* len(batch) of each batch so far
    btResults,   \* the list `results`
    btRaised     \* the exception that left batch_parallel_searches, if any

btVars == <<btPc, btN, btB, btI, btTask, btCalls, btGroup, btOrder, btSizes,
            btResults, btRaised>>

VARIABLES
    \* re-runs (basic_parallel_searches run again on the same queries)
    rrKind,      \* how the Runner.run call for each query ends, in every run
    rrPc,        \* position of basic_parallel_searches in each run
    rrTask,      \* state of the Runner.run call of each query in each run
    rrOrder,     \* indices of the calls of each run in the order they ended
    rrResults,   \* what `await asyncio.gather(*tasks)` evaluated to in each run
    rrRaised     \* the exception gather re-raised in each run, if any

rrVars == <<rrKind, rrPc, rrTask, rrOrder, rrResults, rrRaised>>

VARIABLES
    \* research pipeline (main and conduct_research of deep_research.py)
    plOpenAI,    \* os.environ.get("OPENAI_API_KEY")
    plSendgrid,  \* os.environ.get("SENDGRID_API_KEY")
    plPc,        \* position of main / conduct_research
    plCall,      \* state of the Runner.run call of the plan, write and email stage
    plStages,    \* the stages in the order they were started
    plInput,     \* `search_results` as passed to write_report
    plError,     \* the key named by the error message of main
    plRaised     \* the exception that left conduct_research, if any

plVars == <<plOpenAI, plSendgrid, plPc, plCall, plStages, plInput, plError,
            plRaised>>

VARIABLES
    \* progress (parallel_with_progress over search_with_progress)
    pgPc,        \* position of parallel_with_progress
    pgTask,      \* state of each search_with_progress task
    pgEvents,    \* the progress lines printed so far, in order
    pgOrder,     \* indices of the tasks in the order they finished
    pgResults,   \* what `await asyncio.gather(*tasks)` evaluated to
    pgRaised     \* the exception gather re-raised, if any

pgVars == <<pgPc, pgTask, pgEvents, pgOrder, pgResults, pgRaised>>

vars == <<fanVars, now, dlVars, raceVars, rtVars, btVars, rrVars, plVars, pgVars>>

\* what the actions of one pattern leave alone
notFan == <<now, dlVars, raceVars, rtVars, btVars, rrVars, plVars, pgVars>>
notDl == <<fanVars, raceVars, rtVars, btVars, rrVars, plVars, pgVars>>
notRace == <<fanVars, dlVars, rtVars, btVars, rrVars, plVars, pgVars>>
notRt == <<fanVars, now, dlVars, raceVars, btVars, rrVars, plVars, pgVars>>
notBt == <<fanVars, now, dlVars, raceVars, rtVars, rrVars, plVars, pgVars>>
notRr == <<fanVars, now, dlVars, raceVars, rtVars, btVars, plVars, pgVars>>
notPl == <<fanVars, now, dlVars, raceVars, rtVars, btVars, rrVars, pgVars>>
notPlFan == <<now, dlVars, raceVars, rtVars, btVars, rrVars, pgVars>>
notPg == <<fanVars, now, dlVars, raceVars, rtVars, btVars, rrVars, plVars>>

\* ======================================================================
\* Fan-out: perform_searches over search(item)
\* ======================================================================

\* the query of the i-th item of the plan
PlanQuery(i) == i

\* a task that has been created but has not run yet
NewTask == [st |-> "created", val |-> NoValue]

\* search(item): one Runner.run call; its result is returned, and an
\* exception of the call leaves the coroutine unhandled
Search(q, k) ==
    IF k = "ok"
    THEN [st |-> "returned", val |-> FinalOutput(q)]
    ELSE [st |-> "raised", val |-> ExecError(q, k)]

Terminal(t) == t.st \in {"returned", "raised", "cancelled"}

\* the results list asyncio.gather builds: results by completion order
GatherResultsByCompletion(tasks, order) ==
    [k \in 1..Len(order) |-> tasks[order[k]].val]

\* the results list asyncio.gather builds: one slot per awaitable, in the
\* order the awaitables were passed
GatherResults(tasks, order) ==
    [i \in 1..Len(tasks) |-> tasks[i].val]

\* the first child, in completion order, that finished by raising
FirstRaised(tasks, order) ==
    LET ks == {k \in 1..Len(order) : tasks[order[k]].st = "raised"}
    IN  order[CHOOSE k \in ks : \A m \in ks : k <= m]

AnyRaised(tasks) == \E i \in 1..Len(tasks) : tasks[i].st = "raised"

AllTerminal(tasks) == \A i \in 1..Len(tasks) : Terminal(tasks[i])

\* the state of a pattern that is not running
IdleFanOut ==
    /\ fanN = 0
    /\ fanPc = "idle"
    /\ fanTask = <<>>
    /\ fanCalls = <<>>
    /\ fanOrder = <<>>
    /\ fanResults = NoValue
    /\ fanRaised = NoValue

IdleDeadline ==
    /\ dlPc = "idle"
    /\ dlLat = <<>>
    /\ dlExec = <<>>
    /\ dlCalls = <<>>
    /\ dlDeadline = <<>>
    /\ dlTimer = <<>>
    /\ dlCancel = <<>>
    /\ dlWrap = <<>>
    /\ dlOrder = <<>>
    /\ dlResults = NoValue
    /\ dlRaised = NoValue

IdleRace ==
    /\ racePc = "idle"
    /\ raceLat = <<>>
    /\ raceTask = <<>>
    /\ raceCalls = <<>>
    /\ raceCancel = <<>>
    /\ raceDone = {}
    /\ racePending = {}
    /\ raceWinner = 0
    /\ raceResult = NoValue
    /\ raceLosers = NoValue
    /\ raceRaised = NoValue

IdleRetry ==
    /\ rtPc = "idle"
    /\ rtM = 0
    /\ rtTask = <<>>
    /\ rtAttempt = <<>>
    /\ rtCalls = <<>>
    /\ rtKinds = <<>>
    /\ rtSlept = <<>>
    /\ rtCancelled = <<>>
    /\ rtResults = NoValue

IdleBatch ==
    /\ btPc = "idle"
    /\ btN = 0
    /\ btB = 1
    /\ btI = 0
    /\ btTask = <<>>
    /\ btCalls = <<>>
    /\ btGroup = <<>>
    /\ btOrder = <<>>
    /\ btSizes = <<>>
    /\ btResults = <<>>
    /\ btRaised = NoValue

IdleRerun ==
    /\ rrKind = <<>>
    /\ rrPc = <<>>
    /\ rrTask = <<>>
    /\ rrOrder = <<>>
    /\ rrResults = <<>>
    /\ rrRaised = <<>>

IdlePipeline ==
    /\ plOpenAI = "set"
    /\ plSendgrid = "set"
    /\ plPc = "idle"
    /\ plCall = <<>>
    /\ plStages = <<>>
    /\ plInput = NoValue
    /\ plError = NoValue
    /\ plRaised = NoValue

IdleProgress ==
    /\ pgPc = "idle"
    /\ pgTask = <<>>
    /\ pgEvents = <<>>
    /\ pgOrder = <<>>
    /\ pgResults = NoValue
    /\ pgRaised = NoValue

InitFanOut ==
    /\ now = 0
    /\ IdleDeadline
    /\ IdleRace
    /\ IdleRetry
    /\ IdleBatch
    /\ IdleRerun
    /\ IdlePipeline
    /\ IdleProgress
    /\ fanN \in 0..MaxTasks
    /\ fanPc = "start"
    /\ fanTask = [i \in 1..fanN |-> NewTask]
    /\ fanCalls = [i \in 1..fanN |-> 0]
    /\ fanOrder = <<>>
    /\ fanResults = NoValue
    /\ fanRaised = NoValue

\* perform_searches up to its await: the tasks are created
PerformSearches ==
    /\ fanPc = "start"
    /\ fanPc' = "waiting"
    /\ UNCHANGED <<fanN, fanTask, fanCalls, fanOrder, fanResults, fanRaised>>
    /\ UNCHANGED notFan

\* a created task runs to its await of Runner.run; tasks start in the
\* order they were created
SearchStart(i) ==
    /\ fanPc # "start"
    /\ fanTask[i].st = "created"
    /\ \A j \in 1..(i - 1) : fanTask[j].st # "created"
    /\ fanTask' = [fanTask EXCEPT ![i].st = "running"]
    /\ fanCalls' = [fanCalls EXCEPT ![i] = @ + 1]
    /\ UNCHANGED <<fanN, fanPc, fanOrder, fanResults, fanRaised>>
    /\ UNCHANGED notFan

\* the Executor call of task i ends and search(item) finishes
SearchFinish(i, k) ==
    /\ fanTask[i].st = "running"
    /\ fanTask' = [fanTask EXCEPT ![i] = Search(PlanQuery(i), k)]
    /\ fanOrder' = Append(fanOrder, i)
    /\ UNCHANGED <<fanN, fanPc, fanCalls, fanResults, fanRaised>>
    /\ UNCHANGED notFan

\* `results = await asyncio.gather(*tasks)` resumes: with the first
\* exception of a child as soon as there is one, otherwise with the list of
\* results once every child is done
GatherResume ==
    /\ fanPc = "waiting"
    /\ \/ /\ AnyRaised(fanTask)
          /\ fanPc' = "raised"
          /\ fanRaised' = fanTask[FirstRaised(fanTask, fanOrder)].val
          /\ UNCHANGED fanResults
       \/ /\ ~AnyRaised(fanTask)
          /\ AllTerminal(fanTask)
          /\ fanPc' = "returned"
          /\ fanResults' = GatherResults(fanTask, fanOrder)
          /\ UNCHANGED fanRaised
    /\ UNCHANGED <<fanN, fanTask, fanCalls, fanOrder>>
    /\ UNCHANGED notFan

NextFanOut ==
    \/ PerformSearches
    \/ \E i \in 1..fanN : SearchStart(i)
    \/ \E i \in 1..fanN : \E k \in ExecKinds : SearchFinish(i, k)
    \/ GatherResume

SpecFanOut == InitFanOut /\ [][NextFanOut]_vars

\* ---------------------------------------------------------------- claims

\* C1: whenever the fan-out returns, the returned sequence has one entry
\* per submitted task and entry i is the outcome of task i, whatever the
\* order in which the tasks finished.
C1_OrderPreserved ==
    fanPc = "returned" =>
        /\ Len(fanResults) = fanN
        /\ \A i \in 1..fanN : fanResults[i] = FinalOutput(PlanQuery(i))

\* a fan-out of at least two tasks returned although its tasks finished in
\* the reverse of their submission order
C1_Witness ==
    /\ fanPc = "returned"
    /\ fanN >= 2
    /\ Len(fanOrder) = fanN
    /\ \A k \in 1..fanN : fanOrder[k] = fanN + 1 - k

\* C2: the fan-out call ends only when all N tasks are terminal, and it
\* ends by returning N outcomes; it never fails as a whole because one
\* task failed.
C2_NoShortCircuit ==
    fanPc \in {"returned", "raised"} =>
        /\ fanPc = "returned"
        /\ AllTerminal(fanTask)
        /\ Len(fanResults) = fanN

\* a task run made at most one Executor call, and if it is over it made
\* exactly one and ended by returning a value
RanOnceAndReturned(task, calls) ==
    /\ calls <= 1
    /\ Terminal(task) => (calls = 1 /\ task.st \in {"returned", "cancelled"})

\* ======================================================================
\* Deadlines: parallel_with_timeouts over search_with_timeout
\* ======================================================================

\* len(queries) in parallel_with_timeouts
NumTimeoutQueries == 3

\* timeout=30 passed to search_with_timeout
Timeout == 30

\* how far from the deadline, in seconds, the latencies tried lie
LatencySlack == 1

\* the latencies of a Runner.run call that are tried: before, at and after
\* the deadline
Latencies == (Timeout - LatencySlack)..(Timeout + LatencySlack)

\* Python's None
PyNone == <<"None">>

\* the queries of parallel_with_timeouts
TimeoutQuery(i) == 100 + i

\* the Runner.run call of one query ends by itself
ExecOutcome(q, k) ==
    IF k = "ok"
    THEN [st |-> "returned", val |-> FinalOutput(q)]
    ELSE [st |-> "raised", val |-> ExecError(q, k)]

\* when the timer armed by asyncio.wait_for at time t is due
Deadline(t) == t + Timeout

\* search_with_timeout, the deadline expired: the except clause is missing
SearchWithTimeoutExpiredUncaught(q) ==
    [st |-> "raised", val |-> ExecError(q, "toerr")]

\* search_with_timeout, lines 93-94: wait_for raised TimeoutError
SearchWithTimeoutExpired(q) ==
    [st |-> "returned",
     val |-> [query |-> q, result |-> PyNone, status |-> "timeout"]]

\* search_with_timeout, lines 87-94, when wait_for ends with the outcome e
\* of the Runner.run call itself: the result is wrapped, a TimeoutError
\* raised by the call is caught like the deadline's, any other exception
\* is not caught
SearchWithTimeoutDone(q, e) ==
    IF e.st = "returned"
    THEN [st |-> "returned",
          val |-> [query |-> q, result |-> e.val, status |-> "success"]]
    ELSE IF e.val[1] = "toerr"
         THEN SearchWithTimeoutExpired(q)
         ELSE [st |-> "raised", val |-> e.val]

QueriesDl == 1..NumTimeoutQueries

InitDeadline ==
    /\ now = 0
    /\ IdleFanOut
    /\ IdleRace
    /\ IdleRetry
    /\ IdleBatch
    /\ IdleRerun
    /\ IdlePipeline
    /\ IdleProgress
    /\ dlPc = "start"
    /\ dlLat \in [QueriesDl -> Latencies]
    /\ dlExec = [i \in QueriesDl |-> NewTask]
    /\ dlCalls = [i \in QueriesDl |-> 0]
    /\ dlDeadline = [i \in QueriesDl |-> 0]
    /\ dlTimer = [i \in QueriesDl |-> "none"]
    /\ dlCancel = [i \in QueriesDl |-> FALSE]
    /\ dlWrap = [i \in QueriesDl |-> NewTask]
    /\ dlOrder = <<>>
    /\ dlResults = NoValue
    /\ dlRaised = NoValue

\* parallel_with_timeouts up to its await of gather
ParallelWithTimeouts ==
    /\ dlPc = "start"
    /\ dlPc' = "waiting"
    /\ UNCHANGED <<dlLat, dlExec, dlCalls, dlDeadline, dlTimer, dlCancel,
                   dlWrap, dlOrder, dlResults, dlRaised, now>>
    /\ UNCHANGED notDl

\* search_with_timeout runs to its await: wait_for starts the Runner.run
\* call and arms its timer
TimeoutStart(i) ==
    /\ dlPc # "start"
    /\ dlWrap[i].st = "created"
    /\ \A j \in 1..(i - 1) : dlWrap[j].st # "created"
    /\ dlWrap' = [dlWrap EXCEPT ![i].st = "waiting"]
    /\ dlExec' = [dlExec EXCEPT ![i].st = "running"]
    /\ dlCalls' = [dlCalls EXCEPT ![i] = @ + 1]
    /\ dlDeadline' = [dlDeadline EXCEPT ![i] = Deadline(now)]
    /\ dlTimer' = [dlTimer EXCEPT ![i] = "armed"]
    /\ UNCHANGED <<dlPc, dlLat, dlCancel, dlOrder, dlResults, dlRaised, now>>
    /\ UNCHANGED notDl

\* the Runner.run call of task i ends by itself, after its latency
ExecComplete(i, k) ==
    /\ dlExec[i].st = "running"
    /\ ~dlCancel[i]
    /\ now = dlLat[i]
    /\ dlExec' = [dlExec EXCEPT ![i] = ExecOutcome(TimeoutQuery(i), k)]
    /\ UNCHANGED <<dlPc, dlLat, dlCalls, dlDeadline, dlTimer, dlCancel,
                   dlWrap, dlOrder, dlResults, dlRaised, now>>
    /\ UNCHANGED notDl

\* the timer of wait_for is due and its callback runs
TimerFire(i) ==
    /\ dlWrap[i].st = "waiting"
    /\ dlTimer[i] = "armed"
    /\ now = dlDeadline[i]
    /\ dlTimer' = [dlTimer EXCEPT ![i] = "fired"]
    /\ UNCHANGED <<dlPc, dlLat, dlExec, dlCalls, dlDeadline, dlCancel,
                   dlWrap, dlOrder, dlResults, dlRaised, now>>
    /\ UNCHANGED notDl

\* wait_for resumes and, the call being unfinished, gives up without
\* cancelling it
WaitForResumeNoCancel(i) ==
    /\ dlWrap[i].st = "waiting"
    /\ \/ /\ Terminal(dlExec[i])
          /\ dlTimer' = [dlTimer EXCEPT ![i] = "cancelled"]
          /\ dlWrap' = [dlWrap EXCEPT
                          ![i] = SearchWithTimeoutDone(TimeoutQuery(i), dlExec[i])]
          /\ dlOrder' = Append(dlOrder, i)
          /\ UNCHANGED dlCancel
       \/ /\ ~Terminal(dlExec[i])
          /\ dlTimer[i] = "fired"
          /\ dlWrap' = [dlWrap EXCEPT
                          ![i] = SearchWithTimeoutExpired(TimeoutQuery(i))]
          /\ dlOrder' = Append(dlOrder, i)
          /\ UNCHANGED <<dlCancel, dlTimer>>
    /\ UNCHANGED <<dlPc, dlLat, dlExec, dlCalls, dlDeadline,
                   dlResults, dlRaised, now>>
    /\ UNCHANGED notDl

\* wait_for resumes and, the call being unfinished, cancels every call
\* that is still running, as one deadline for the whole fan-out would
WaitForResumeCancelAll(i) ==
    /\ dlWrap[i].st = "waiting"
    /\ \/ /\ Terminal(dlExec[i])
          /\ dlTimer' = [dlTimer EXCEPT ![i] = "cancelled"]
          /\ dlWrap' = [dlWrap EXCEPT
                          ![i] = SearchWithTimeoutDone(TimeoutQuery(i), dlExec[i])]
          /\ dlOrder' = Append(dlOrder, i)
          /\ UNCHANGED dlCancel
       \/ /\ ~Terminal(dlExec[i])
          /\ dlTimer[i] = "fired"
          /\ dlCancel' = [j \in DOMAIN dlCancel |->
                            dlCancel[j] \/ dlExec[j].st = "running"]
          /\ dlWrap' = [dlWrap EXCEPT ![i].st = "cancelling"]
          /\ UNCHANGED <<dlTimer, dlOrder>>
    /\ UNCHANGED <<dlPc, dlLat, dlExec, dlCalls, dlDeadline,
                   dlResults, dlRaised, now>>
    /\ UNCHANGED notDl

\* wait_for resumes, woken by the end of the call or by the timer: if the
\* call is done its outcome is taken and the timer is cancelled, otherwise
\* the call is cancelled and wait_for waits for the cancellation to land
WaitForResume(i) ==
    /\ dlWrap[i].st = "waiting"
    /\ \/ /\ Terminal(dlExec[i])
          /\ dlTimer' = [dlTimer EXCEPT ![i] = "cancelled"]
          /\ dlWrap' = [dlWrap EXCEPT
                          ![i] = SearchWithTimeoutDone(TimeoutQuery(i), dlExec[i])]
          /\ dlOrder' = Append(dlOrder, i)
          /\ UNCHANGED dlCancel
       \/ /\ ~Terminal(dlExec[i])
          /\ dlTimer[i] = "fired"
          /\ dlCancel' = [dlCancel EXCEPT ![i] = TRUE]
          /\ dlWrap' = [dlWrap EXCEPT ![i].st = "cancelling"]
          /\ UNCHANGED <<dlTimer, dlOrder>>
    /\ UNCHANGED <<dlPc, dlLat, dlExec, dlCalls, dlDeadline,
                   dlResults, dlRaised, now>>
    /\ UNCHANGED notDl

\* the cancellation is thrown into the Runner.run call at its await
CancelDelivered(i) ==
    /\ dlExec[i].st = "running"
    /\ dlCancel[i]
    /\ dlExec' = [dlExec EXCEPT ![i].st = "cancelled"]
    /\ UNCHANGED <<dlPc, dlLat, dlCalls, dlDeadline, dlTimer, dlCancel,
                   dlWrap, dlOrder, dlResults, dlRaised, now>>
    /\ UNCHANGED notDl

\* wait_for raises TimeoutError once the call is cancelled, and
\* search_with_timeout catches it
WaitForTimeout(i) ==
    /\ dlWrap[i].st = "cancelling"
    /\ dlExec[i].st = "cancelled"
    /\ dlWrap' = [dlWrap EXCEPT ![i] = SearchWithTimeoutExpired(TimeoutQuery(i))]
    /\ dlOrder' = Append(dlOrder, i)
    /\ UNCHANGED <<dlPc, dlLat, dlExec, dlCalls, dlDeadline, dlTimer,
                   dlCancel, dlResults, dlRaised, now>>
    /\ UNCHANGED notDl

\* `results = await asyncio.gather(*tasks)` of parallel_with_timeouts
GatherTimeouts ==
    /\ dlPc = "waiting"
    /\ \/ /\ AnyRaised(dlWrap)
          /\ dlPc' = "raised"
          /\ dlRaised' = dlWrap[FirstRaised(dlWrap, dlOrder)].val
          /\ UNCHANGED dlResults
       \/ /\ ~AnyRaised(dlWrap)
          /\ AllTerminal(dlWrap)
          /\ dlPc' = "returned"
          /\ dlResults' = GatherResults(dlWrap, dlOrder)
          /\ UNCHANGED dlRaised
    /\ UNCHANGED <<dlLat, dlExec, dlCalls, dlDeadline, dlTimer, dlCancel,
                   dlWrap, dlOrder, now>>
    /\ UNCHANGED notDl

\* something the event loop can run without waiting
ReadyDl ==
    \/ dlPc = "start"
    \/ dlPc = "waiting" /\ (AnyRaised(dlWrap) \/ AllTerminal(dlWrap))
    \/ \E i \in QueriesDl :
          \/ dlWrap[i].st = "created"
          \/ dlExec[i].st = "running" /\ (dlCancel[i] \/ now = dlLat[i])
          \/ dlWrap[i].st = "waiting" /\
                \/ Terminal(dlExec[i])
                \/ dlTimer[i] = "fired"
                \/ dlTimer[i] = "armed" /\ now = dlDeadline[i]
          \/ dlWrap[i].st = "cancelling" /\ dlExec[i].st = "cancelled"

\* the times at which something is due
DueTimesDl ==
    {dlLat[i] : i \in {j \in QueriesDl : dlExec[j].st = "running"}}
    \cup {dlDeadline[i] : i \in {j \in QueriesDl :
                                   dlWrap[j].st = "waiting" /\ dlTimer[j] = "armed"}}

Min(S) == CHOOSE x \in S : \A y \in S : x <= y

\* the loop has nothing to run and sleeps until the next thing is due
AdvanceDl ==
    /\ dlPc \in {"waiting", "returned", "raised"}
    /\ ~ReadyDl
    /\ DueTimesDl # {}
    /\ now' = Min(DueTimesDl)
    /\ UNCHANGED dlVars
    /\ UNCHANGED notDl

NextDeadline ==
    \/ ParallelWithTimeouts
    \/ \E i \in DOMAIN dlWrap : TimeoutStart(i)
    \/ \E i \in DOMAIN dlWrap : \E k \in ExecKinds : ExecComplete(i, k)
    \/ \E i \in DOMAIN dlWrap : TimerFire(i)
    \/ \E i \in DOMAIN dlWrap : WaitForResume(i)
    \/ \E i \in DOMAIN dlWrap : CancelDelivered(i)
    \/ \E i \in DOMAIN dlWrap : WaitForTimeout(i)
    \/ GatherTimeouts
    \/ AdvanceDl

SpecDeadline == InitDeadline /\ [][NextDeadline]_vars

\* ---------------------------------------------------------------- claims

TimeoutDict(q) == [query |-> q, result |-> PyNone, status |-> "timeout"]

SuccessDict(q) == [query |-> q, result |-> FinalOutput(q), status |-> "success"]

\* how many outcomes task i was given
OutcomesOf(i) == Cardinality({k \in 1..Len(dlOrder) : dlOrder[k] = i})

\* C4: search_with_timeout ends with exactly one outcome; when the call
\* needs longer than the timeout the outcome is the timeout dict (status
\* "timeout", result None), and when the call returns a value strictly
\* before the deadline the outcome is the success dict with that value.
C4_DeadlineOutcome ==
    \A i \in DOMAIN dlWrap :
        /\ OutcomesOf(i) = (IF Terminal(dlWrap[i]) THEN 1 ELSE 0)
        /\ (Terminal(dlWrap[i]) /\ dlLat[i] > Timeout) =>
              /\ dlWrap[i].st = "returned"
              /\ dlWrap[i].val = TimeoutDict(TimeoutQuery(i))
        /\ (Terminal(dlWrap[i]) /\ dlLat[i] < Timeout
                /\ dlExec[i].st = "returned") =>
              /\ dlWrap[i].st = "returned"
              /\ dlWrap[i].val = SuccessDict(TimeoutQuery(i))
        /\ dlLat[i] < Timeout => dlExec[i].st # "cancelled"

\* one task was given the timeout outcome because its call outlasted the
\* deadline, another the success outcome one second before the deadline
C4_Witness ==
    \E i, j \in DOMAIN dlWrap :
        /\ dlLat[i] > Timeout
        /\ dlWrap[i].st = "returned"
        /\ dlWrap[i].val.status = "timeout"
        /\ dlLat[j] = Timeout - 1
        /\ dlWrap[j].st = "returned"
        /\ dlWrap[j].val.status = "success"

\* C5: when search_with_timeout has ended because the deadline expired
\* before the call completed, cancel() has been called on the call; a call
\* that completed by itself is never sent cancel().
C5_CancelOnDeadline ==
    \A i \in DOMAIN dlWrap :
        /\ (Terminal(dlWrap[i]) /\ dlLat[i] > Timeout) => dlCancel[i]
        /\ (Terminal(dlWrap[i]) /\ dlExec[i].st \notin {"returned", "raised"})
              => dlCancel[i]
        /\ dlExec[i].st \in {"returned", "raised"} => ~dlCancel[i]
        /\ dlLat[i] < Timeout => ~dlCancel[i]

\* one task returned the timeout outcome after its call was cancelled, and
\* another call completed before the deadline without being cancelled
C5_Witness ==
    \E i, j \in DOMAIN dlWrap :
        /\ dlWrap[i].st = "returned"
        /\ dlWrap[i].val.status = "timeout"
        /\ dlExec[i].st = "cancelled"
        /\ dlCancel[i]
        /\ dlLat[j] < Timeout
        /\ Terminal(dlExec[j])
        /\ Terminal(dlWrap[j])
        /\ ~dlCancel[j]

C6_DeadlineNeverRaises ==
    \A i \in DOMAIN dlWrap : dlWrap[i].st # "raised"

\* ======================================================================
\* Race: race_to_answer over search_task
\* ======================================================================

\* num_agents in race_to_answer
NumAgents == 3

\* the largest latency, in seconds, of a raced Runner.run call
MaxRaceLatency == 3

\* the query every agent of the race is given
RaceQuery == 200

Agents == 1..NumAgents

\* search_task(query, agent_id): one Runner.run call; its result is put
\* in a dict with the agent's id and the elapsed time, and an exception of
\* the call leaves the coroutine unhandled
SearchTask(q, id, k, elapsed) ==
    IF k = "ok"
    THEN [st |-> "returned",
          val |-> [agent_id |-> id, query |-> q,
                   result |-> FinalOutput(q), time |-> elapsed]]
    ELSE [st |-> "raised", val |-> ExecError(q, k)]

\* the sets asyncio.wait returns when it resumes
WaitDone(tasks) == {i \in DOMAIN tasks : Terminal(tasks[i])}
WaitPending(tasks) == {i \in DOMAIN tasks : ~Terminal(tasks[i])}

InitRace ==
    /\ now = 0
    /\ IdleFanOut
    /\ IdleDeadline
    /\ IdleRetry
    /\ IdleBatch
    /\ IdleRerun
    /\ IdlePipeline
    /\ IdleProgress
    /\ racePc = "start"
    /\ raceLat \in [Agents -> 1..MaxRaceLatency]
    /\ raceTask = [i \in Agents |-> NewTask]
    /\ raceCalls = [i \in Agents |-> 0]
    /\ raceCancel = [i \in Agents |-> FALSE]
    /\ raceDone = {}
    /\ racePending = {}
    /\ raceWinner = 0
    /\ raceResult = NoValue
    /\ raceLosers = NoValue
    /\ raceRaised = NoValue

\* race_to_answer up to its await of asyncio.wait
RaceToAnswer ==
    /\ racePc = "start"
    /\ racePc' = "waiting"
    /\ UNCHANGED <<raceLat, raceTask, raceCalls, raceCancel, raceDone,
                   racePending, raceWinner, raceResult, raceLosers,
                   raceRaised, now>>
    /\ UNCHANGED notRace

\* a search_task coroutine runs to its await of Runner.run; asyncio.wait
\* schedules the coroutines from a set, so in no particular order
RaceStart(i) ==
    /\ racePc # "start"
    /\ raceTask[i].st = "created"
    /\ raceTask' = [raceTask EXCEPT ![i].st = "running"]
    /\ raceCalls' = [raceCalls EXCEPT ![i] = @ + 1]
    /\ UNCHANGED <<racePc, raceLat, raceCancel, raceDone, racePending,
                   raceWinner, raceResult, raceLosers, raceRaised, now>>
    /\ UNCHANGED notRace

\* the Runner.run call of agent i ends by itself and search_task finishes
RaceFinish(i, k) ==
    /\ raceTask[i].st = "running"
    /\ ~raceCancel[i]
    /\ now = raceLat[i]
    /\ raceTask' = [raceTask EXCEPT
                      ![i] = SearchTask(RaceQuery, i, k, raceLat[i])]
    /\ UNCHANGED <<racePc, raceLat, raceCalls, raceCancel, raceDone,
                   racePending, raceWinner, raceResult, raceLosers,
                   raceRaised, now>>
    /\ UNCHANGED notRace

\* race_to_answer, from the return of asyncio.wait, where the cancelled
\* tasks are awaited before the last line
RaceResumeAwaitLosers ==
    /\ racePc = "waiting"
    /\ WaitDone(raceTask) # {}
    /\ raceDone' = WaitDone(raceTask)
    /\ racePending' = WaitPending(raceTask)
    /\ \E w \in WaitDone(raceTask) :
          /\ raceWinner' = w
          /\ \/ /\ raceTask[w].st = "raised"
                /\ racePc' = "raised"
                /\ raceRaised' = raceTask[w].val
                /\ UNCHANGED <<raceResult, raceCancel, raceLosers, raceTask>>
             \/ /\ raceTask[w].st = "returned"
                /\ racePc' = "returned"
                /\ raceResult' = raceTask[w].val
                /\ raceCancel' = [i \in Agents |->
                                    i \in WaitPending(raceTask)]
                /\ raceTask' = [i \in Agents |->
                                  IF i \in WaitPending(raceTask)
                                  THEN [raceTask[i] EXCEPT !.st = "cancelled"]
                                  ELSE raceTask[i]]
                /\ raceLosers' = Cardinality(WaitPending(raceTask))
                /\ UNCHANGED raceRaised
    /\ UNCHANGED <<raceLat, raceCalls, now>>
    /\ UNCHANGED notRace

\* race_to_answer, lines 155-172, from the return of asyncio.wait to the
\* end, which has no await: the tasks are split into done and pending,
\* list(done)[0] is any element of done, its result() returns its value or
\* re-raises its exception, and only after that every pending task is
\* sent cancel() and len(pending) is printed
RaceResume ==
    /\ racePc = "waiting"
    /\ WaitDone(raceTask) # {}
    /\ raceDone' = WaitDone(raceTask)
    /\ racePending' = WaitPending(raceTask)
    /\ \E w \in WaitDone(raceTask) :
          /\ raceWinner' = w
          /\ \/ /\ raceTask[w].st = "raised"
                /\ racePc' = "raised"
                /\ raceRaised' = raceTask[w].val
                /\ UNCHANGED <<raceResult, raceCancel, raceLosers>>
             \/ /\ raceTask[w].st = "returned"
                /\ racePc' = "returned"
                /\ raceResult' = raceTask[w].val
                /\ raceCancel' = [i \in Agents |->
                                    i \in WaitPending(raceTask)]
                /\ raceLosers' = Cardinality(WaitPending(raceTask))
                /\ UNCHANGED raceRaised
    /\ UNCHANGED <<raceLat, raceTask, raceCalls, now>>
    /\ UNCHANGED notRace

\* the cancellation is thrown into a pending search_task at its await
RaceCancelDelivered(i) ==
    /\ raceTask[i].st = "running"
    /\ raceCancel[i]
    /\ raceTask' = [raceTask EXCEPT ![i].st = "cancelled"]
    /\ UNCHANGED <<racePc, raceLat, raceCalls, raceCancel, raceDone,
                   racePending, raceWinner, raceResult, raceLosers,
                   raceRaised, now>>
    /\ UNCHANGED notRace

\* something the event loop can run without waiting
ReadyRace ==
    \/ racePc = "start"
    \/ racePc = "waiting" /\ WaitDone(raceTask) # {}
    \/ \E i \in Agents :
          \/ raceTask[i].st = "created"
          \/ raceTask[i].st = "running" /\ (raceCancel[i] \/ now = raceLat[i])

\* the times at which a raced call is due
DueTimesRace ==
    {raceLat[i] : i \in {j \in Agents : raceTask[j].st = "running"}}

\* the loop has nothing to run and sleeps until the next call is due
AdvanceRace ==
    /\ racePc \in {"waiting", "returned", "raised"}
    /\ ~ReadyRace
    /\ DueTimesRace # {}
    /\ now' = Min(DueTimesRace)
    /\ UNCHANGED raceVars
    /\ UNCHANGED notRace

NextRace ==
    \/ RaceToAnswer
    \/ \E i \in DOMAIN raceTask : RaceStart(i)
    \/ \E i \in DOMAIN raceTask : \E k \in ExecKinds : RaceFinish(i, k)
    \/ RaceResume
    \/ \E i \in DOMAIN raceTask : RaceCancelDelivered(i)
    \/ AdvanceRace

SpecRace == InitRace /\ [][NextRace]_vars

\* ---------------------------------------------------------------- claims

RaceOver == racePc \in {"returned", "raised"}

\* C6 (race half): race_to_answer never ends by raising; a winner that
\* completed by raising is handed to the caller as an outcome value.
C6_RaceNeverRaises == racePc # "raised"

\* C7: whenever the race is over, exactly one winner has been reported and
\* the reported number of cancelled tasks is N - 1.
C7_OneWinnerRestLosers ==
    RaceOver =>
        /\ racePc = "returned"
        /\ raceWinner \in Agents
        /\ raceResult = raceTask[raceWinner].val
        /\ raceLosers = NumAgents - 1

PairwiseDistinct(f) ==
    \A i, j \in DOMAIN f : i # j => f[i] # f[j]

Fastest(f) == CHOOSE i \in DOMAIN f : \A j \in DOMAIN f : f[i] <= f[j]

\* C8: with pairwise distinct latencies, a race that is over has returned
\* the outcome of the task of least latency and has reported 2 losers.
C8_FastestWins ==
    (RaceOver /\ PairwiseDistinct(raceLat)) =>
        /\ racePc = "returned"
        /\ raceWinner = Fastest(raceLat)
        /\ raceResult = raceTask[Fastest(raceLat)].val
        /\ raceLosers = 2

\* C9: whenever the race is over, every task that was still running when
\* the first outcome was observed has been sent cancel().
C9_LosersCancelled ==
    RaceOver => \A i \in racePending : raceCancel[i]

\* C10: race_to_answer returns without waiting for the losers: in the
\* step in which it returns, every task that was pending has been sent
\* cancel() and none of them has stopped yet.
C10_ReturnsBeforeLosersStop ==
    [][(racePc = "waiting" /\ racePc' = "returned") =>
          \A i \in racePending' :
              /\ raceCancel'[i]
              /\ ~Terminal(raceTask'[i])]_vars

\* the race has returned while a loser that was sent cancel() is still
\* running
C10_Witness ==
    /\ racePc = "returned"
    /\ \E i \in racePending : raceCancel[i] /\ raceTask[i].st = "running"

\* ======================================================================
\* Retry: parallel_with_error_recovery over search_with_retry
\* ======================================================================

\* len(queries) in parallel_with_error_recovery
NumRetryQueries == 3

\* the largest max_retries tried
MaxAttempts == 3

RetryTasks == 1..NumRetryQueries

\* the queries of parallel_with_error_recovery
RetryQuery(i) == 300 + i

\* how an awaited call can end inside search_with_retry: as Runner.run
\* ends by itself, or with the CancelledError of a cancellation
AwaitKinds == ExecKinds \cup {"cancel"}

\* 2 ** n
RECURSIVE Pow2(_)
Pow2(n) == IF n = 0 THEN 1 ELSE 2 * Pow2(n - 1)

\* the delay slept after the failure of attempt `attempt`: linear in it
BackoffLinear(attempt) == 2 * attempt

\* line 190: the delay slept after the failure of attempt `attempt`
Backoff(attempt) == Pow2(attempt)

\* `except:` that catches everything thrown at the await
CaughtByBareExcept(k) == k # "ok"

\* line 187, `except Exception`: the exceptions of the Executor are
\* caught, TimeoutError included; CancelledError is a BaseException and
\* is not
Caught(k) == k \in {"err", "toerr"}

\* str(e) of the exception an Executor call raised
ErrorText(q, k) == <<"str", ExecError(q, k)>>

\* the dict returned on success, with the 0-based loop variable as the
\* attempt count
RetrySuccessZeroBased(q, attempt) ==
    [kind |-> "success", query |-> q, result |-> FinalOutput(q),
     attempts |-> attempt]

\* line 186, the dict returned on success
RetrySuccess(q, attempt) ==
    [kind |-> "success", query |-> q, result |-> FinalOutput(q),
     attempts |-> attempt + 1]

\* line 189, the dict returned when the last attempt failed
RetryFailed(q, k, attempt) ==
    [kind |-> "failed", query |-> q, result |-> PyNone,
     error |-> ErrorText(q, k), attempts |-> attempt + 1]

\* what a function that falls off its end returns
ReturnedNone == [kind |-> "none"]

\* the CancelledError a cancelled task ends with
CancelledError(q) == [kind |-> "CancelledError", query |-> q]

InitRetry ==
    /\ now = 0
    /\ IdleFanOut
    /\ IdleDeadline
    /\ IdleRace
    /\ IdleBatch
    /\ IdleRerun
    /\ IdlePipeline
    /\ IdleProgress
    /\ rtPc = "start"
    /\ rtM \in 0..MaxAttempts
    /\ rtTask = [i \in RetryTasks |-> NewTask]
    /\ rtAttempt = [i \in RetryTasks |-> 0]
    /\ rtCalls = [i \in RetryTasks |-> 0]
    /\ rtKinds = [i \in RetryTasks |-> <<>>]
    /\ rtSlept = [i \in RetryTasks |-> <<>>]
    /\ rtCancelled = [i \in RetryTasks |-> FALSE]
    /\ rtResults = NoValue

\* parallel_with_error_recovery up to its await of gather
ParallelWithErrorRecovery ==
    /\ rtPc = "start"
    /\ rtPc' = "waiting"
    /\ UNCHANGED <<rtM, rtTask, rtAttempt, rtCalls, rtKinds, rtSlept,
                   rtCancelled, rtResults>>
    /\ UNCHANGED notRt

\* search_with_retry runs to its first await: range(max_retries) is empty
\* when max_retries < 1 and the function falls off its end, otherwise the
\* first Runner.run call is made
RetryStart(i) ==
    /\ rtPc # "start"
    /\ rtTask[i].st = "created"
    /\ \A j \in 1..(i - 1) : rtTask[j].st # "created"
    /\ IF rtM < 1
       THEN /\ rtTask' = [rtTask EXCEPT
                            ![i] = [st |-> "returned", val |-> ReturnedNone]]
            /\ UNCHANGED rtCalls
       ELSE /\ rtTask' = [rtTask EXCEPT ![i].st = "running"]
            /\ rtCalls' = [rtCalls EXCEPT ![i] = @ + 1]
    /\ UNCHANGED <<rtPc, rtM, rtAttempt, rtKinds, rtSlept, rtCancelled,
                   rtResults>>
    /\ UNCHANGED notRt

\* lines 184-190: the awaited Runner.run call of the current attempt ends
\* with k; a result is returned with attempt + 1; a caught exception is
\* returned as the error dict on the last attempt and is otherwise
\* followed by the backoff sleep; what is not caught leaves the coroutine
RetryAttemptEnd(i, k) ==
    /\ rtTask[i].st = "running"
    /\ LET q == RetryQuery(i)
           a == rtAttempt[i]
       IN  /\ rtKinds' = [rtKinds EXCEPT ![i] = Append(@, k)]
           /\ rtCancelled' = [rtCancelled EXCEPT ![i] = @ \/ k = "cancel"]
           /\ IF k = "ok"
              THEN /\ rtTask' = [rtTask EXCEPT
                        ![i] = [st |-> "returned", val |-> RetrySuccess(q, a)]]
                   /\ UNCHANGED rtSlept
              ELSE IF Caught(k)
              THEN IF a = rtM - 1
                   THEN /\ rtTask' = [rtTask EXCEPT
                             ![i] = [st |-> "returned",
                                     val |-> RetryFailed(q, k, a)]]
                        /\ UNCHANGED rtSlept
                   ELSE /\ rtTask' = [rtTask EXCEPT ![i].st = "sleeping"]
                        /\ rtSlept' = [rtSlept EXCEPT
                                         ![i] = Append(@, Backoff(a))]
              ELSE /\ rtTask' = [rtTask EXCEPT
                        ![i] = [st |-> "cancelled", val |-> CancelledError(q)]]
                   /\ UNCHANGED rtSlept
    /\ UNCHANGED <<rtPc, rtM, rtAttempt, rtCalls, rtResults>>
    /\ UNCHANGED notRt

\* the loop goes to the next attempt with one attempt counter for all
\* the tasks
RetryWakeSharedCounter(i) ==
    /\ rtTask[i].st = "sleeping"
    /\ rtTask' = [rtTask EXCEPT ![i].st = "running"]
    /\ rtAttempt' = [j \in DOMAIN rtAttempt |-> rtAttempt[j] + 1]
    /\ rtCalls' = [rtCalls EXCEPT ![i] = @ + 1]
    /\ UNCHANGED <<rtPc, rtM, rtKinds, rtSlept, rtCancelled, rtResults>>
    /\ UNCHANGED notRt

\* the backoff sleep is over: the loop goes to the next attempt and makes
\* its Runner.run call
RetryWake(i) ==
    /\ rtTask[i].st = "sleeping"
    /\ rtTask' = [rtTask EXCEPT ![i].st = "running"]
    /\ rtAttempt' = [rtAttempt EXCEPT ![i] = @ + 1]
    /\ rtCalls' = [rtCalls EXCEPT ![i] = @ + 1]
    /\ UNCHANGED <<rtPc, rtM, rtKinds, rtSlept, rtCancelled, rtResults>>
    /\ UNCHANGED notRt

\* a cancellation is thrown into the task during the backoff sleep, which
\* is awaited inside the except clause, outside any try
RetryCancelInSleep(i) ==
    /\ rtTask[i].st = "sleeping"
    /\ rtTask' = [rtTask EXCEPT
                    ![i] = [st |-> "cancelled",
                            val |-> CancelledError(RetryQuery(i))]]
    /\ rtCancelled' = [rtCancelled EXCEPT ![i] = TRUE]
    /\ UNCHANGED <<rtPc, rtM, rtAttempt, rtCalls, rtKinds, rtSlept, rtResults>>
    /\ UNCHANGED notRt

\* `results = await asyncio.gather(*tasks, return_exceptions=True)`: it
\* resumes once every task is done, with the value or the exception of
\* each task in its slot
GatherRecovery ==
    /\ rtPc = "waiting"
    /\ AllTerminal(rtTask)
    /\ rtPc' = "returned"
    /\ rtResults' = GatherResults(rtTask, <<>>)
    /\ UNCHANGED <<rtM, rtTask, rtAttempt, rtCalls, rtKinds, rtSlept,
                   rtCancelled>>
    /\ UNCHANGED notRt

NextRetry ==
    \/ ParallelWithErrorRecovery
    \/ \E i \in DOMAIN rtTask : RetryStart(i)
    \/ \E i \in DOMAIN rtTask : \E k \in AwaitKinds : RetryAttemptEnd(i, k)
    \/ \E i \in DOMAIN rtTask : RetryWake(i)
    \/ \E i \in DOMAIN rtTask : RetryCancelInSleep(i)
    \/ GatherRecovery

SpecRetry == InitRetry /\ [][NextRetry]_vars

\* ---------------------------------------------------------------- claims

\* the number of Runner.run calls of task i that ended by raising
FailedCalls(i) ==
    Cardinality({p \in 1..Len(rtKinds[i]) : rtKinds[i][p] \in {"err", "toerr"}})

LastKind(i) == rtKinds[i][Len(rtKinds[i])]

\* C11: with max_retries m >= 1 and an Executor that fails k times before
\* it succeeds, search_with_retry returns success with attempts = k + 1
\* after k + 1 calls when k < m, and the error dict carrying the last error
\* with attempts = m after m calls when k >= m; attempts is in 1..m.
C11_AttemptAccounting ==
    rtM >= 1 =>
      \A i \in DOMAIN rtTask :
        rtTask[i].st = "returned" =>
          LET v == rtTask[i].val
              k == FailedCalls(i)
          IN  /\ v.kind \in {"success", "failed"}
              /\ v.attempts >= 1 /\ v.attempts <= rtM
              /\ rtCalls[i] = v.attempts
              /\ (v.kind = "success") = (LastKind(i) = "ok")
              /\ v.kind = "success" =>
                    /\ k < rtM
                    /\ v.attempts = k + 1
                    /\ v.result = FinalOutput(RetryQuery(i))
              /\ v.kind = "failed" =>
                    /\ k = rtM
                    /\ v.attempts = rtM
                    /\ v.error = <<"str", <<LastKind(i), RetryQuery(i)>>>>

\* with max_retries = 3, one task succeeded on its third attempt after two
\* failures and another failed all three attempts
C11_Witness ==
    /\ rtM = 3
    /\ \E i, j \in DOMAIN rtTask :
          /\ rtTask[i].st = "returned"
          /\ rtKinds[i] = <<"err", "err", "ok">>
          /\ rtTask[i].val.attempts = 3
          /\ rtTask[j].st = "returned"
          /\ rtTask[j].val.kind = "failed"
          /\ rtTask[j].val.attempts = 3

\* the delays of the exponential schedule with a base delay of 1 second
ExpectedDelays == <<1, 2, 4, 8, 16, 32>>

\* C12: the delay slept after failed attempt p (1-indexed) is 2^(p-1)
\* seconds, a failed attempt that is not the last is followed by its sleep
\* before the next call is made, and nothing is slept after a success or
\* after the last failed attempt.
C12_BackoffSchedule ==
    \A i \in DOMAIN rtTask :
        /\ \A p \in 1..Len(rtSlept[i]) : rtSlept[i][p] = ExpectedDelays[p]
        /\ rtTask[i].st = "sleeping" => Len(rtSlept[i]) = rtCalls[i]
        /\ (rtTask[i].st \in {"running", "returned"} /\ rtCalls[i] >= 1)
              => Len(rtSlept[i]) = rtCalls[i] - 1
        /\ rtCalls[i] <= Len(rtSlept[i]) + 1

\* a task failed all three attempts of max_retries = 3 having slept 1 and
\* then 2 seconds
C12_Witness ==
    \E i \in DOMAIN rtTask :
        /\ rtM = 3
        /\ rtTask[i].st = "returned"
        /\ rtTask[i].val.kind = "failed"
        /\ rtSlept[i] = <<1, 2>>

\* C13: an attempt that ended with TimeoutError is the last Runner.run
\* call of its task and is followed by no backoff sleep.
C13_TimeoutNotRetried ==
    \A i \in DOMAIN rtTask :
        \A p \in 1..Len(rtKinds[i]) :
            rtKinds[i][p] = "toerr" =>
                /\ rtCalls[i] = p
                /\ rtTask[i].st # "sleeping"
                /\ Len(rtSlept[i]) = p - 1

\* C14: once a cancellation has been thrown into search_with_retry, during
\* an attempt or during a backoff sleep, the task is over as cancelled and
\* has made no Runner.run call beyond those that had ended.
C14_CancelNotRetried ==
    \A i \in DOMAIN rtTask :
        rtCancelled[i] =>
            /\ rtTask[i].st = "cancelled"
            /\ rtCalls[i] = Len(rtKinds[i])

\* one task was cancelled during its second attempt and another during a
\* backoff sleep
C14_Witness ==
    \E i, j \in DOMAIN rtTask :
        /\ rtTask[i].st = "cancelled"
        /\ rtKinds[i] = <<"err", "cancel">>
        /\ rtTask[j].st = "cancelled"
        /\ rtKinds[j] = <<"err">>
        /\ Len(rtSlept[j]) = 1

\* C15: search_with_retry with max_retries < 1 never returns normally, and
\* every value it returns is an outcome with an attempt count >= 1.
C15_MaxAttemptsPrecondition ==
    \A i \in DOMAIN rtTask :
        rtTask[i].st = "returned" =>
            /\ rtM >= 1
            /\ rtTask[i].val.kind \in {"success", "failed"}
            /\ rtTask[i].val.attempts >= 1

\* everything search_with_retry keeps for task i
RetryState(i) ==
    <<rtTask[i], rtAttempt[i], rtCalls[i], rtKinds[i], rtSlept[i],
      rtCancelled[i]>>

\* whether every attempt max_retries allows was made by task i and failed
Exhausted(i) ==
    /\ rtM >= 1
    /\ Len(rtKinds[i]) = rtM
    /\ \A p \in 1..rtM : rtKinds[i][p] \in {"err", "toerr"}

\* what task i hands to gather, from the calls of task i alone
OwnOutcome(i) ==
    IF rtM < 1 THEN ReturnedNone
    ELSE IF rtCancelled[i] THEN CancelledError(RetryQuery(i))
    ELSE IF LastKind(i) = "ok"
         THEN RetrySuccess(RetryQuery(i), Len(rtKinds[i]) - 1)
         ELSE RetryFailed(RetryQuery(i), LastKind(i), rtM - 1)

\* C25: every task of parallel_with_error_recovery counts its own attempts
\* and sleeps its own backoff: a step of one task changes nothing of
\* another task, the attempt counter of a task is the number of its own
\* failed calls, and the call returns one entry per query in query order,
\* entry i being what the calls of query i alone determine, a failed entry
\* exactly where the query exhausted its attempts.
C25_IndependentRetries ==
    /\ [](/\ \A i \in DOMAIN rtTask :
               /\ rtTask[i].st # "cancelled"
                     => rtAttempt[i] = Len(rtSlept[i])
                           - (IF rtTask[i].st = "sleeping" THEN 1 ELSE 0)
               /\ rtTask[i].st \in {"running", "returned"}
                     => rtAttempt[i] = FailedCalls(i)
                           - (IF Exhausted(i) THEN 1 ELSE 0)
          /\ rtPc = "returned" =>
               /\ Len(rtResults) = NumRetryQueries
               /\ \A i \in DOMAIN rtTask :
                     /\ rtResults[i] = OwnOutcome(i)
                     /\ (rtResults[i].kind = "failed") = Exhausted(i))
    /\ [][\A i, j \in DOMAIN rtTask :
             i # j => (RetryState(i)' = RetryState(i)
                       \/ RetryState(j)' = RetryState(j))]_vars

\* with max_retries = 3 the call returned a failed entry for a query that
\* exhausted its attempts between a first-attempt success and a
\* second-attempt success, in query order
C25_Witness ==
    /\ rtPc = "returned"
    /\ rtM = 3
    /\ rtResults[1].kind = "success" /\ rtResults[1].attempts = 1
    /\ rtResults[2].kind = "failed" /\ rtResults[2].attempts = 3
    /\ rtResults[3].kind = "success" /\ rtResults[3].attempts = 2

\* ======================================================================
\* Batches: batch_parallel_searches
\* ======================================================================

\* the largest number of queries handed to batch_parallel_searches
MaxBatchQueries == 8

\* the largest batch_size tried
MaxBatchSize == 3

\* the queries handed to batch_parallel_searches
BatchQuery(i) == 400 + i

\* a query for which no Runner.run coroutine exists yet
NoTask == [st |-> "absent", val |-> NoValue]

\* the ValueError of range() with a step of zero
RangeStepError == <<"ValueError", "range() arg 3 must not be zero">>

\* a range that stops before an offset with fewer than step items left
InRangeFullOnly(i, n, step) == IF step > 0 THEN i + step <= n ELSE i > n

\* whether i is produced by range(0, n, step), i being a multiple of step
InRange(i, n, step) == IF step > 0 THEN i < n ELSE i > n

\* line 237, queries[i:i+b]: the positions (1-based) of the slice, which
\* stops at the end of the list
Slice(i, b, n) ==
    {j \in 1..n : j >= i + 1 /\ j <= i + b}

\* gather resumes as soon as one awaitable of the batch is done
GatherDoneAny(tasks, idxs) == \E j \in idxs : Terminal(tasks[j])

\* line 241: gather resumes with results once every awaitable of the batch
\* is done
GatherDone(tasks, idxs) == \A j \in idxs : Terminal(tasks[j])

\* the least and greatest element of a non-empty set of positions
Least(S) == CHOOSE x \in S : \A y \in S : x <= y
Greatest(S) == CHOOSE x \in S : \A y \in S : x >= y

\* lines 237-240: the coroutines of the batch at offset i are created
WithBatch(tasks, i, b, n) ==
    [j \in 1..n |-> IF j \in Slice(i, b, n) THEN NewTask ELSE tasks[j]]

InitBatch ==
    /\ now = 0
    /\ IdleFanOut
    /\ IdleDeadline
    /\ IdleRace
    /\ IdleRetry
    /\ IdleRerun
    /\ IdlePipeline
    /\ IdleProgress
    /\ btPc = "start"
    /\ btN \in 0..MaxBatchQueries
    /\ btB \in (0 - 1)..MaxBatchSize
    /\ btI = 0
    /\ btTask = [j \in 1..btN |-> NoTask]
    /\ btCalls = [j \in 1..btN |-> 0]
    /\ btGroup = [j \in 1..btN |-> 0]
    /\ btOrder = <<>>
    /\ btSizes = <<>>
    /\ btResults = <<>>
    /\ btRaised = NoValue

\* batch_parallel_searches from its entry to its first await: range()
\* raises ValueError for a step of 0 and is empty for an empty list or a
\* negative step, in which case the empty `results` is returned; otherwise
\* the first batch is formed and gathered
BatchBegin ==
    /\ btPc = "start"
    /\ IF btB = 0
       THEN /\ btPc' = "raised"
            /\ btRaised' = RangeStepError
            /\ UNCHANGED <<btTask, btGroup, btSizes>>
       ELSE IF ~InRange(0, btN, btB)
       THEN /\ btPc' = "returned"
            /\ UNCHANGED <<btTask, btGroup, btSizes, btRaised>>
       ELSE /\ btPc' = "waiting"
            /\ btTask' = WithBatch(btTask, 0, btB, btN)
            /\ btGroup' = [j \in 1..btN |->
                             IF j \in Slice(0, btB, btN) THEN 1 ELSE btGroup[j]]
            /\ btSizes' = <<Cardinality(Slice(0, btB, btN))>>
            /\ UNCHANGED btRaised
    /\ UNCHANGED <<btN, btB, btI, btCalls, btOrder, btResults>>
    /\ UNCHANGED notBt

\* gather starts the Runner.run coroutines of the batch in order
BatchTaskStart(j) ==
    /\ btTask[j].st = "created"
    /\ \A m \in 1..(j - 1) : btTask[m].st # "created"
    /\ btTask' = [btTask EXCEPT ![j].st = "running"]
    /\ btCalls' = [btCalls EXCEPT ![j] = @ + 1]
    /\ UNCHANGED <<btPc, btN, btB, btI, btGroup, btOrder, btSizes,
                   btResults, btRaised>>
    /\ UNCHANGED notBt

\* the Runner.run call of query j ends
BatchTaskFinish(j, k) ==
    /\ btTask[j].st = "running"
    /\ btTask' = [btTask EXCEPT ![j] = ExecOutcome(BatchQuery(j), k)]
    /\ btOrder' = Append(btOrder, j)
    /\ UNCHANGED <<btPc, btN, btB, btI, btCalls, btGroup, btSizes,
                   btResults, btRaised>>
    /\ UNCHANGED notBt

\* lines 241-247, `batch_results = await asyncio.gather(*tasks)` resumes:
\* the first exception of a call of the batch leaves the function; with
\* every call done the results are appended in batch order and the loop
\* goes on to the next offset, forming and gathering the next batch, or
\* ends and returns `results`
BatchGatherResume ==
    /\ btPc = "waiting"
    /\ LET group == Slice(btI, btB, btN)
           next == btI + btB
       IN  \/ /\ \E j \in group : btTask[j].st = "raised"
              /\ btPc' = "raised"
              /\ btRaised' = btTask[FirstRaised(btTask, btOrder)].val
              /\ UNCHANGED <<btI, btTask, btGroup, btOrder, btSizes, btResults>>
           \/ /\ \A j \in group : btTask[j].st # "raised"
              /\ GatherDone(btTask, group)
              /\ btResults' = btResults \o
                    GatherResults(SubSeq(btTask, Least(group), Greatest(group)),
                                  btOrder)
              /\ btOrder' = <<>>
              /\ UNCHANGED btRaised
              /\ IF InRange(next, btN, btB)
                 THEN /\ btI' = next
                      /\ btTask' = WithBatch(btTask, next, btB, btN)
                      /\ btGroup' = [j \in 1..btN |->
                                       IF j \in Slice(next, btB, btN)
                                       THEN Len(btSizes) + 1 ELSE btGroup[j]]
                      /\ btSizes' = Append(btSizes,
                                           Cardinality(Slice(next, btB, btN)))
                      /\ UNCHANGED btPc
                 ELSE /\ btPc' = "returned"
                      /\ UNCHANGED <<btI, btTask, btGroup, btSizes>>
    /\ UNCHANGED <<btN, btB, btCalls>>
    /\ UNCHANGED notBt

NextBatch ==
    \/ BatchBegin
    \/ \E j \in DOMAIN btTask : BatchTaskStart(j)
    \/ \E j \in DOMAIN btTask : \E k \in ExecKinds : BatchTaskFinish(j, k)
    \/ BatchGatherResume

SpecBatch == InitBatch /\ [][NextBatch]_vars

\* ---------------------------------------------------------------- claims

BatchOver == btPc \in {"returned", "raised"}

\* the number of Runner.run calls that are in flight
InFlight == Cardinality({j \in DOMAIN btTask : btTask[j].st = "running"})

\* ceil(n / b) for b >= 1
CeilDiv(n, b) == (n + b - 1) \div b

\* C16: batch_parallel_searches with batch_size < 1 ends by raising: it
\* never returns a result sequence and launches no task.
C16_BatchSizePrecondition ==
    (btPc # "idle" /\ btB < 1) =>
        /\ btPc \in {"start", "raised"}
        /\ \A j \in DOMAIN btTask : btCalls[j] = 0

\* C17: for batch_size b >= 1, a call that returned has processed
\* ceil(N/b) contiguous groups of size b, the last one possibly smaller,
\* every query in exactly one group and run once, and results has length
\* N with results[i] the outcome of query i.
C17_PartitionAndOrder ==
    (btPc = "returned" /\ btB >= 1) =>
        /\ Len(btSizes) = CeilDiv(btN, btB)
        /\ \A g \in 1..Len(btSizes) :
              btSizes[g] = (IF g < Len(btSizes) THEN btB
                            ELSE btN - btB * (Len(btSizes) - 1))
        /\ \A j \in 1..btN :
              /\ btGroup[j] = ((j - 1) \div btB) + 1
              /\ btCalls[j] = 1
        /\ Len(btResults) = btN
        /\ \A j \in 1..btN : btResults[j] = FinalOutput(BatchQuery(j))

\* 8 queries in batches of 3 were processed as groups of 3, 3 and 2
C17_Witness ==
    /\ btPc = "returned"
    /\ btN = 8
    /\ btB = 3
    /\ btSizes = <<3, 3, 2>>
    /\ Len(btResults) = 8

\* C18: for batch_size b >= 1, at most b Runner.run calls are in flight,
\* and a query of a group exists as a task only when every call of every
\* earlier group has ended.
C18_ConcurrencyBound ==
    btB >= 1 =>
        /\ InFlight <= btB
        /\ \A i, j \in DOMAIN btTask :
              (btGroup[j] > 0 /\ btGroup[i] > 0 /\ btGroup[i] < btGroup[j])
                  => Terminal(btTask[i])

\* batch_size calls of the second group are in flight together
C18_Witness ==
    /\ btB = 3
    /\ InFlight = 3
    /\ \E j \in DOMAIN btTask : btGroup[j] = 2 /\ btTask[j].st = "running"

\* C19: for batch_size b >= 1 the call ends by returning N outcomes and
\* every query has been run, also when a call of some group failed.
C19_SurvivesFailures ==
    (btB >= 1 /\ BatchOver) =>
        /\ btPc = "returned"
        /\ Len(btResults) = btN
        /\ \A j \in 1..btN : btCalls[j] = 1

\* ======================================================================
\* Re-runs: basic_parallel_searches called again on the same queries
\* ======================================================================

\* len(queries) in basic_parallel_searches
NumBasicQueries == 3

\* how many times the call is made
Reruns == 2

BasicQuery(i) == 500 + i

\* whether run r has ended
RunOver(pcs, r) == pcs[r] \in {"returned", "raised"}

\* the queries are fixed and the Executor is deterministic: how the
\* Runner.run call for a query ends depends on the query alone
InitRerun ==
    /\ now = 0
    /\ IdleFanOut
    /\ IdleDeadline
    /\ IdleRace
    /\ IdleRetry
    /\ IdleBatch
    /\ IdlePipeline
    /\ IdleProgress
    /\ rrKind \in [1..NumBasicQueries -> ExecKinds]
    /\ rrPc = [r \in 1..Reruns |-> "start"]
    /\ rrTask = [r \in 1..Reruns |-> [i \in 1..NumBasicQueries |-> NoTask]]
    /\ rrOrder = [r \in 1..Reruns |-> <<>>]
    /\ rrResults = [r \in 1..Reruns |-> NoValue]
    /\ rrRaised = [r \in 1..Reruns |-> NoValue]

\* lines 64-67, basic_parallel_searches up to its await: the Runner.run
\* coroutines are created and handed to gather; a run is made once the run
\* before it has ended
BasicParallelSearches(r) ==
    /\ rrPc[r] = "start"
    /\ r > 1 => RunOver(rrPc, r - 1)
    /\ rrPc' = [rrPc EXCEPT ![r] = "waiting"]
    /\ rrTask' = [rrTask EXCEPT ![r] = [i \in 1..NumBasicQueries |-> NewTask]]
    /\ UNCHANGED <<rrKind, rrOrder, rrResults, rrRaised>>
    /\ UNCHANGED notRr

\* gather starts the Runner.run coroutines of a run in order
BasicStart(r, i) ==
    /\ rrTask[r][i].st = "created"
    /\ \A j \in 1..(i - 1) : rrTask[r][j].st # "created"
    /\ rrTask' = [rrTask EXCEPT ![r][i].st = "running"]
    /\ UNCHANGED <<rrKind, rrPc, rrOrder, rrResults, rrRaised>>
    /\ UNCHANGED notRr

\* the Runner.run call of query i in run r ends, as the Executor does for
\* that query
BasicFinish(r, i) ==
    /\ rrTask[r][i].st = "running"
    /\ rrTask' = [rrTask EXCEPT ![r][i] = ExecOutcome(BasicQuery(i), rrKind[i])]
    /\ rrOrder' = [rrOrder EXCEPT ![r] = Append(@, i)]
    /\ UNCHANGED <<rrKind, rrPc, rrResults, rrRaised>>
    /\ UNCHANGED notRr

\* line 67, `results = await asyncio.gather(*tasks)` resumes in run r
BasicGatherResume(r) ==
    /\ rrPc[r] = "waiting"
    /\ \/ /\ AnyRaised(rrTask[r])
          /\ rrPc' = [rrPc EXCEPT ![r] = "raised"]
          /\ rrRaised' = [rrRaised EXCEPT
                            ![r] = rrTask[r][FirstRaised(rrTask[r], rrOrder[r])].val]
          /\ UNCHANGED rrResults
       \/ /\ ~AnyRaised(rrTask[r])
          /\ AllTerminal(rrTask[r])
          /\ rrPc' = [rrPc EXCEPT ![r] = "returned"]
          /\ rrResults' = [rrResults EXCEPT
                             ![r] = GatherResults(rrTask[r], rrOrder[r])]
          /\ UNCHANGED rrRaised
    /\ UNCHANGED <<rrKind, rrTask, rrOrder>>
    /\ UNCHANGED notRr

NextRerun ==
    \/ \E r \in DOMAIN rrPc : BasicParallelSearches(r)
    \/ \E r \in DOMAIN rrPc : \E i \in DOMAIN rrKind : BasicStart(r, i)
    \/ \E r \in DOMAIN rrPc : \E i \in DOMAIN rrKind : BasicFinish(r, i)
    \/ \E r \in DOMAIN rrPc : BasicGatherResume(r)

SpecRerun == InitRerun /\ [][NextRerun]_vars

\* ---------------------------------------------------------------- claims

\* what the caller of run r got
RunResult(r) == <<rrPc[r], rrResults[r], rrRaised[r]>>

\* C22: two runs of the fan-out on the same queries with a deterministic
\* Executor hand the same thing to their caller, whatever the order in
\* which the calls of each run ended.
C22_RerunSameOutcomes ==
    \A r, s \in DOMAIN rrPc :
        (RunOver(rrPc, r) /\ RunOver(rrPc, s)) => RunResult(r) = RunResult(s)

\* the weaker statement that holds: two runs end the same way, and when
\* they return they return the same sequence
C22_ReturnedRunsAgree ==
    \A r, s \in DOMAIN rrPc :
        (RunOver(rrPc, r) /\ RunOver(rrPc, s)) =>
            /\ rrPc[r] = rrPc[s]
            /\ rrResults[r] = rrResults[s]

\* ======================================================================
\* Research pipeline: main and conduct_research of deep_research.py, with
\* perform_searches as its search stage
\* ======================================================================

\* what os.environ.get can give for a key: None, an empty string, a key
EnvValues == {"absent", "empty", "set"}

\* the guard gives up only when both keys are missing
MissingBoth(a, b) == a # "set" /\ b # "set"

\* lines 324-330, `not os.environ.get(...)` for either key: None and the
\* empty string are both falsy
Missing(a, b) == a # "set" \/ b # "set"

\* the stages of conduct_research in the order of lines 283-292
StageOrder == <<"plan", "search", "write", "email">>

NoCalls == [plan |-> "none", write |-> "none", email |-> "none"]

\* how a Runner.run call of a stage ends
CallEnd(k) == IF k = "ok" THEN "returned" ELSE "raised"

InitPipeline ==
    /\ now = 0
    /\ IdleFanOut
    /\ IdleDeadline
    /\ IdleRace
    /\ IdleRetry
    /\ IdleBatch
    /\ IdleRerun
    /\ IdleProgress
    /\ plOpenAI \in EnvValues
    /\ plSendgrid \in EnvValues
    /\ plPc = "main"
    /\ plCall = NoCalls
    /\ plStages = <<>>
    /\ plInput = NoValue
    /\ plError = NoValue
    /\ plRaised = NoValue

\* main, lines 324-342, through demo_research and conduct_research to the
\* await of Runner.run in plan_searches (line 174): with a key missing the
\* error is printed and main returns
Main ==
    /\ plPc = "main"
    /\ IF Missing(plOpenAI, plSendgrid)
       THEN /\ plPc' = "exit"
            /\ plError' = (IF plOpenAI # "set" THEN "OPENAI_API_KEY"
                           ELSE "SENDGRID_API_KEY")
            /\ UNCHANGED <<plCall, plStages>>
       ELSE /\ plPc' = "plan"
            /\ plCall' = [plCall EXCEPT !.plan = "running"]
            /\ plStages' = Append(plStages, "plan")
            /\ UNCHANGED plError
    /\ UNCHANGED <<plOpenAI, plSendgrid, plInput, plRaised>>
    /\ UNCHANGED notPl

\* lines 174-182 and 283-286: the planner call ends; its exception leaves
\* conduct_research, its plan of n searches is handed to perform_searches,
\* which creates one task per item
PlanDone(n, k) ==
    /\ plPc = "plan"
    /\ plCall' = [plCall EXCEPT !.plan = CallEnd(k)]
    /\ IF k = "ok"
       THEN /\ plPc' = "search"
            /\ plStages' = Append(plStages, "search")
            /\ fanN' = n
            /\ fanPc' = "start"
            /\ fanTask' = [i \in 1..n |-> NewTask]
            /\ fanCalls' = [i \in 1..n |-> 0]
            /\ UNCHANGED plRaised
       ELSE /\ plPc' = "raised"
            /\ plRaised' = ExecError("plan", k)
            /\ UNCHANGED <<plStages, fanN, fanPc, fanTask, fanCalls>>
    /\ UNCHANGED <<plOpenAI, plSendgrid, plInput, plError>>
    /\ UNCHANGED <<fanOrder, fanResults, fanRaised>>
    /\ UNCHANGED notPlFan

\* the search stage is left as soon as one search has ended, with the
\* results there are
SearchesDoneEager ==
    /\ plPc = "search"
    /\ fanPc = "waiting"
    /\ \E i \in 1..fanN : fanTask[i].st = "returned"
    /\ plPc' = "write"
    /\ plInput' = [i \in 1..fanN |-> fanTask[i].val]
    /\ plCall' = [plCall EXCEPT !.write = "running"]
    /\ plStages' = Append(plStages, "write")
    /\ UNCHANGED plRaised
    /\ UNCHANGED <<plOpenAI, plSendgrid, plError>>
    /\ UNCHANGED notPl

\* a failed search is skipped and the report is written from the results
\* of the other searches
SearchesDoneBestEffort ==
    /\ plPc = "search"
    /\ fanPc \in {"returned", "raised"}
    /\ plPc' = "write"
    /\ plInput' = [i \in 1..fanN |-> fanTask[i].val]
    /\ plCall' = [plCall EXCEPT !.write = "running"]
    /\ plStages' = Append(plStages, "write")
    /\ UNCHANGED plRaised
    /\ UNCHANGED <<plOpenAI, plSendgrid, plError>>
    /\ UNCHANGED notPl

\* lines 286-289 and 237-240: `await perform_searches(search_plan)` is
\* over; its exception leaves conduct_research, its list of results is
\* passed to write_report, which awaits the writer call
SearchesDone ==
    /\ plPc = "search"
    /\ fanPc \in {"returned", "raised"}
    /\ IF fanPc = "returned"
       THEN /\ plPc' = "write"
            /\ plInput' = fanResults
            /\ plCall' = [plCall EXCEPT !.write = "running"]
            /\ plStages' = Append(plStages, "write")
            /\ UNCHANGED plRaised
       ELSE /\ plPc' = "raised"
            /\ plRaised' = fanRaised
            /\ UNCHANGED <<plInput, plCall, plStages>>
    /\ UNCHANGED <<plOpenAI, plSendgrid, plError>>
    /\ UNCHANGED notPl

\* lines 240-248 and 289-292, 258-259: the writer call ends; its
\* exception leaves conduct_research, its report is passed to email_report,
\* which awaits the email call
WriteDone(k) ==
    /\ plPc = "write"
    /\ IF k = "ok"
       THEN /\ plPc' = "email"
            /\ plCall' = [plCall EXCEPT !.write = "returned",
                                        !.email = "running"]
            /\ plStages' = Append(plStages, "email")
            /\ UNCHANGED plRaised
       ELSE /\ plPc' = "raised"
            /\ plCall' = [plCall EXCEPT !.write = "raised"]
            /\ plRaised' = ExecError("write", k)
            /\ UNCHANGED plStages
    /\ UNCHANGED <<plOpenAI, plSendgrid, plInput, plError>>
    /\ UNCHANGED notPl

\* lines 259-260 and 292-298: the email call ends; its exception leaves
\* conduct_research, otherwise the report is returned
EmailDone(k) ==
    /\ plPc = "email"
    /\ plCall' = [plCall EXCEPT !.email = CallEnd(k)]
    /\ IF k = "ok"
       THEN /\ plPc' = "done"
            /\ UNCHANGED plRaised
       ELSE /\ plPc' = "raised"
            /\ plRaised' = ExecError("email", k)
    /\ UNCHANGED <<plOpenAI, plSendgrid, plStages, plInput, plError>>
    /\ UNCHANGED notPl

NextPipeline ==
    \/ Main
    \/ \E n \in 0..MaxTasks : \E k \in ExecKinds : PlanDone(n, k)
    \/ SearchesDone
    \/ \E k \in ExecKinds : WriteDone(k)
    \/ \E k \in ExecKinds : EmailDone(k)
    \/ NextFanOut

SpecPipeline == InitPipeline /\ [][NextPipeline]_vars

\* ---------------------------------------------------------------- claims

\* whether the stage's Runner.run call has been made
Started(stage) == plCall[stage] # "none"

\* whether perform_searches has been called or any search(item) has run
SearchStageBegun ==
    \/ fanPc # "idle"
    \/ \E i \in DOMAIN fanTask : fanTask[i].st # "created"

\* C23: conduct_research starts its stages in the order plan, search,
\* write, email: no search has started unless the planner call returned,
\* the writer call is made only when perform_searches has returned with
\* every planned search done and is given their results, and the email call
\* is made only when the writer call has returned.
C23_StageOrder ==
    plPc # "idle" =>
        /\ Len(plStages) <= Len(StageOrder)
        /\ \A p \in 1..Len(plStages) : plStages[p] = StageOrder[p]
        /\ SearchStageBegun => plCall.plan = "returned"
        /\ Started("write") =>
              /\ fanPc = "returned"
              /\ \A i \in 1..fanN : fanTask[i].st = "returned"
              /\ plInput = [i \in 1..fanN |-> FinalOutput(PlanQuery(i))]
        /\ Started("email") => plCall.write = "returned"

\* a plan of three searches went through all four stages to the end
C23_Witness ==
    /\ plPc = "done"
    /\ fanN = 3
    /\ plStages = StageOrder
    /\ fanOrder = <<3, 1, 2>>

\* C24: when the planner call, one of the searches or the writer call
\* raised, no later stage of conduct_research is started: after a failed
\* plan no search runs, after a failed search no report is written, also
\* not from the results of the other searches, and after a failed plan,
\* search or report no email is sent; the exception leaves conduct_research.
C24_AbortOnFailedStage ==
    plPc # "idle" =>
        /\ plCall.plan = "raised" =>
              /\ ~SearchStageBegun
              /\ ~Started("write") /\ ~Started("email")
              /\ plPc = "raised"
        /\ AnyRaised(fanTask) =>
              /\ ~Started("write") /\ ~Started("email")
              /\ plInput = NoValue
              /\ plPc \in {"search", "raised"}
        /\ plCall.write = "raised" =>
              /\ ~Started("email")
              /\ plPc = "raised"
        /\ plPc = "raised" => plRaised # NoValue

\* one search raised while another returned, and conduct_research was left
\* with that exception
C24_Witness ==
    /\ plPc = "raised"
    /\ \E i, j \in 1..fanN :
          /\ fanTask[i].st = "raised"
          /\ fanTask[j].st = "returned"
          /\ plRaised = fanTask[i].val
    /\ plStages = <<"plan", "search">>

\* C27: with OPENAI_API_KEY or SENDGRID_API_KEY missing main names the
\* missing key and returns: no stage is started, no planner, search,
\* writer or email call is made.
C27_MissingKeyGuard ==
    (plPc # "idle" /\ (plOpenAI # "set" \/ plSendgrid # "set")) =>
        /\ plPc \in {"main", "exit"}
        /\ plStages = <<>>
        /\ plCall = NoCalls
        /\ ~SearchStageBegun
        /\ plInput = NoValue
        /\ plPc = "exit" => plError \in {"OPENAI_API_KEY", "SENDGRID_API_KEY"}

\* main returned because only the SendGrid key is missing
C27_Witness ==
    /\ plPc = "exit"
    /\ plOpenAI = "set"
    /\ plSendgrid = "absent"
    /\ plError = "SENDGRID_API_KEY"

\* ======================================================================
\* Progress: parallel_with_progress over search_with_progress
\* ======================================================================

\* len(queries) in parallel_with_progress
NumProgressQueries == 5

ProgressTasks == 1..NumProgressQueries

ProgressQuery(i) == 600 + i

\* search_with_progress handles no exception, so every exception of the
\* Runner.run call acts alike
ProgressKinds == {"ok", "err"}

\* the lines printed at lines 274, 278 and 305
Starting(i) == <<"Starting", i, NumProgressQueries>>
Completed(i) == <<"Completed", i, NumProgressQueries>>
AllCompleted == <<"All", NumProgressQueries>>

InitProgress ==
    /\ now = 0
    /\ IdleFanOut
    /\ IdleDeadline
    /\ IdleRace
    /\ IdleRetry
    /\ IdleBatch
    /\ IdleRerun
    /\ IdlePipeline
    /\ pgPc = "start"
    /\ pgTask = [i \in ProgressTasks |-> NewTask]
    /\ pgEvents = <<>>
    /\ pgOrder = <<>>
    /\ pgResults = NoValue
    /\ pgRaised = NoValue

\* lines 296-303, parallel_with_progress up to its await of gather
ParallelWithProgress ==
    /\ pgPc = "start"
    /\ pgPc' = "waiting"
    /\ UNCHANGED <<pgTask, pgEvents, pgOrder, pgResults, pgRaised>>
    /\ UNCHANGED notPg

\* lines 273-276: search_with_progress prints its Starting line and awaits
\* Runner.run; gather starts the coroutines in order
ProgressStart(i) ==
    /\ pgPc # "start"
    /\ pgTask[i].st = "created"
    /\ \A j \in 1..(i - 1) : pgTask[j].st # "created"
    /\ pgTask' = [pgTask EXCEPT ![i].st = "running"]
    /\ pgEvents' = Append(pgEvents, Starting(i))
    /\ UNCHANGED <<pgPc, pgOrder, pgResults, pgRaised>>
    /\ UNCHANGED notPg

\* the Completed line is printed however the Runner.run call ended
ProgressFinishAlwaysCompleted(i, k) ==
    /\ pgTask[i].st = "running"
    /\ pgTask' = [pgTask EXCEPT ![i] = ExecOutcome(ProgressQuery(i), k)]
    /\ pgOrder' = Append(pgOrder, i)
    /\ pgEvents' = Append(pgEvents, Completed(i))
    /\ UNCHANGED <<pgPc, pgResults, pgRaised>>
    /\ UNCHANGED notPg

\* lines 276-279: the Runner.run call ends; its result is followed by the
\* Completed line and returned, its exception leaves the coroutine at the
\* await
ProgressFinish(i, k) ==
    /\ pgTask[i].st = "running"
    /\ pgTask' = [pgTask EXCEPT ![i] = ExecOutcome(ProgressQuery(i), k)]
    /\ pgOrder' = Append(pgOrder, i)
    /\ pgEvents' = (IF k = "ok" THEN Append(pgEvents, Completed(i))
                    ELSE pgEvents)
    /\ UNCHANGED <<pgPc, pgResults, pgRaised>>
    /\ UNCHANGED notPg

\* lines 303-305, `results = await asyncio.gather(*tasks)` resumes: with
\* the first exception of a task, or with the results once every task is
\* done, and then the final line is printed
ProgressGatherResume ==
    /\ pgPc = "waiting"
    /\ \/ /\ AnyRaised(pgTask)
          /\ pgPc' = "raised"
          /\ pgRaised' = pgTask[FirstRaised(pgTask, pgOrder)].val
          /\ UNCHANGED <<pgResults, pgEvents>>
       \/ /\ ~AnyRaised(pgTask)
          /\ AllTerminal(pgTask)
          /\ pgPc' = "returned"
          /\ pgResults' = GatherResults(pgTask, pgOrder)
          /\ pgEvents' = Append(pgEvents, AllCompleted)
          /\ UNCHANGED pgRaised
    /\ UNCHANGED <<pgTask, pgOrder>>
    /\ UNCHANGED notPg

NextProgress ==
    \/ ParallelWithProgress
    \/ \E i \in DOMAIN pgTask : ProgressStart(i)
    \/ \E i \in DOMAIN pgTask : \E k \in ProgressKinds : ProgressFinish(i, k)
    \/ ProgressGatherResume

SpecProgress == InitProgress /\ [][NextProgress]_vars

\* ---------------------------------------------------------------- claims

\* the positions of the event e in the log
Positions(e) == {p \in 1..Len(pgEvents) : pgEvents[p] = e}

\* C26: in parallel_with_progress every task that has started has printed
\* its Starting line exactly once, the Starting lines appear in task index
\* order, a Completed line of a task appears exactly once, after the
\* Starting line of that task and only if its Runner.run call returned, and
\* the final line appears only when the call returned, once, as the last
\* line, after the Starting and Completed lines of all N tasks.
C26_ProgressEvents ==
    /\ \A i \in DOMAIN pgTask :
          /\ Cardinality(Positions(Starting(i)))
                = (IF pgTask[i].st = "created" THEN 0 ELSE 1)
          /\ Cardinality(Positions(Completed(i)))
                = (IF pgTask[i].st = "returned" THEN 1 ELSE 0)
          /\ \A p \in Positions(Starting(i)) :
                /\ \A c \in Positions(Completed(i)) : p < c
                /\ \A j \in DOMAIN pgTask :
                      j < i => \E q \in Positions(Starting(j)) : q < p
    /\ Cardinality(Positions(AllCompleted))
          = (IF pgPc = "returned" THEN 1 ELSE 0)
    /\ \A a \in Positions(AllCompleted) :
          /\ a = Len(pgEvents)
          /\ a = 2 * NumProgressQueries + 1
          /\ \A i \in DOMAIN pgTask :
                \E c \in Positions(Completed(i)) : c < a

\* the call returned although the searches completed in the reverse of
\* their start order
C26_Witness ==
    /\ pgPc = "returned"
    /\ pgOrder = <<5, 4, 3, 2, 1>>
    /\ pgEvents[Len(pgEvents)] = AllCompleted

\* a search failed between two that completed: it has a Starting line and
\* no Completed line, and there is no final line
C26_FailureWitness ==
    /\ pgPc = "raised"
    /\ pgTask[2].st = "raised"
    /\ pgTask[1].st = "returned"
    /\ pgTask[3].st = "returned"
    /\ Positions(Completed(2)) = {}
    /\ Positions(Starting(2)) # {}

\* ======================================================================
\* Any one of the patterns
\* ======================================================================

Init ==
    \/ InitFanOut
    \/ InitDeadline
    \/ InitRace
    \/ InitRetry
    \/ InitBatch
    \/ InitRerun
    \/ InitPipeline
    \/ InitProgress

Next ==
    \/ NextFanOut
    \/ NextDeadline
    \/ NextRace
    \/ NextRetry
    \/ NextBatch
    \/ NextRerun
    \/ NextPipeline
    \/ NextProgress

Spec == Init /\ [][Next]_vars

\* ---------------------------------------------------------------- claims

\* C3: a task run (search, search_task) invokes the Executor exactly once
\* and ends by returning an outcome; no exception of the Executor ends the
\* task run as a raised error.
C3_TaskRunnerNeverRaises ==
    /\ \A i \in DOMAIN fanTask : RanOnceAndReturned(fanTask[i], fanCalls[i])
    /\ \A i \in DOMAIN raceTask : RanOnceAndReturned(raceTask[i], raceCalls[i])

\* C6: search_with_timeout and race_to_answer hand a failure to their
\* caller as an outcome value; neither ends by raising the error of the
\* Executor.
C6_FailuresAreOutcomes ==
    /\ C6_DeadlineNeverRaises
    /\ C6_RaceNeverRaises

\* how often x occurs in the sequence s
Occurrences(s, x) == Cardinality({k \in 1..Len(s) : s[k] = x})

\* no task that exists is waiting to start or in flight
Drained(tasks) ==
    \A i \in DOMAIN tasks : tasks[i].st \notin {"created", "running"}

\* C21: in the fan-out and in the batches every submitted query is run by
\* at most one Runner.run call and gets its outcome at most once, and once
\* the strategy is over and nothing is in flight any more every submitted
\* query has been run exactly once and has a terminal outcome.
C21_TaskLifecycle ==
    /\ \A i \in DOMAIN fanTask :
          /\ fanCalls[i] <= 1
          /\ Occurrences(fanOrder, i) = (IF Terminal(fanTask[i]) THEN 1 ELSE 0)
    /\ \A j \in DOMAIN btTask :
          /\ btCalls[j] <= 1
          /\ Occurrences(btOrder, j) <= 1
    /\ (fanPc \in {"returned", "raised"} /\ Drained(fanTask)) =>
          \A i \in DOMAIN fanTask : fanCalls[i] = 1 /\ Terminal(fanTask[i])
    /\ (btB >= 1 /\ BatchOver /\ Drained(btTask)) =>
          \A j \in DOMAIN btTask : btCalls[j] = 1 /\ Terminal(btTask[j])

====
